---- MODULE Spec2Model ----
(***************************************************************************)
(* A model of the SmartDiet planner web application (src/app.py): the      *)
(* content store loaded at start-up, the document collections (profiles,   *)
(* saved_plans, saved_workouts, likes) and the route handlers that read    *)
(* and write them.  Every handler is one atomic action; random.choice is   *)
(* a nondeterministic choice; an uncaught Python exception is a response   *)
(* with status 500 that names the exception.                               *)
(***************************************************************************)
EXTENDS Integers, Sequences, FiniteSets, TLC

VARIABLES DIET_PLANS_DATA, profiles, saved_plans, saved_workouts, likes, next_oid, last

vars == <<DIET_PLANS_DATA, profiles, saved_plans, saved_workouts, likes, next_oid, last>>

(***************************************************************************)
(* Bounds of the model.                                                    *)
(***************************************************************************)
\* most profile documents
MaxDocs == 2
\* most ObjectIds the store hands out in one run
MaxOid == 3
\* most like records
MaxLikes == 3

\* the authenticated users (current_user.id); registration and login are
\* outside the model
Users == {"u1", "u2"}

(***************************************************************************)
(* Python values.  A dict is a function whose DOMAIN is its key set.       *)
(***************************************************************************)
EmptyDict == <<>>

\* dict.get(key, default)
DictGet(d, key, default) == IF key \in DOMAIN d THEN d[key] ELSE default

\* the elements of a list
Elems(s) == {s[i] : i \in DOMAIN s}

\* a request parameter that was not sent (request.args.get gives None)
AbsentArg == "<None>"

\* truth value of a request parameter: None and "" are falsy
ArgTruthy(a) == a # AbsentArg /\ a # ""

(***************************************************************************)
(* The content store: data/diet_plans.json read by load_diet_plans().      *)
(***************************************************************************)
OptOats == [Breakfast |-> "Oats with nuts and banana", Lunch |-> "Grilled chicken salad"]
OptYogurt == [Breakfast |-> "Greek yogurt parfait", Lunch |-> "Grilled chicken salad"]
OptEgg == [Breakfast |-> "Egg white omelette"]
OptFish == [Breakfast |-> "Oats with nuts and banana", Dinner |-> "Baked fish"]

DietBalanced == [name |-> "Balanced Diet", meal_options |-> <<OptOats, OptYogurt>>]
DietBalancedAlt == [name |-> "Balanced Diet", meal_options |-> <<OptEgg, OptFish, OptOats>>]
DietHighProtein == [name |-> "High Protein", meal_options |-> <<>>]
DietLowCarb == [name |-> "Low Carb"]
DietLowFat == [name |-> "Low Fat", meal_options |-> <<OptEgg>>]
DietKeto == [name |-> "Keto", meal_options |-> <<OptEgg, OptFish>>]
\* an entry without a "name" key: diet['name'] raises KeyError
DietNameless == [meal_options |-> <<OptOats>>]

\* the "diets" lists the file may hold
DietFiles ==
    { <<DietBalanced, DietHighProtein, DietLowCarb, DietLowFat>>,
      <<DietBalanced, DietBalancedAlt, DietKeto>>,
      <<DietLowFat, DietKeto, DietHighProtein>>,
      <<DietBalanced, DietNameless>>,
      <<>> }

\* {diet['name']: diet for diet in data['diets']}; any exception gives {}
load_diet_plans(diets) ==
    IF \E i \in DOMAIN diets : "name" \notin DOMAIN diets[i]
    THEN EmptyDict
    ELSE [n \in {diets[i].name : i \in DOMAIN diets} |->
            LET k == CHOOSE i \in DOMAIN diets :
                        /\ diets[i].name = n
                        /\ \A j \in DOMAIN diets : diets[j].name = n => j <= i
            IN  diets[k]]

(***************************************************************************)
(* GET /get-swap                                                           *)
(***************************************************************************)
DietNames == {AbsentArg, "", "Balanced Diet", "High Protein", "Low Carb", "Low Fat", "Keto", "Paleo"}
MealTypes == {AbsentArg, "", "Breakfast", "Lunch", "Dinner", "Snack"}
Meals == {AbsentArg, "", "Oats with nuts and banana", "Greek yogurt parfait",
          "Grilled chicken salad", "Egg white omelette", "Pancakes"}

\* possible_swaps without the "!= current_meal" test
possible_swaps_keep_current(meal_options, meal_type, current_meal) ==
    LET keep(option) == meal_type \in DOMAIN option
        picked == SelectSeq(meal_options, keep)
    IN  [i \in DOMAIN picked |-> picked[i][meal_type]]

\* [option[meal_type] for option in meal_options
\*    if meal_type in option and option[meal_type] != current_meal]
possible_swaps(meal_options, meal_type, current_meal) ==
    LET keep(option) == meal_type \in DOMAIN option /\ option[meal_type] # current_meal
        picked == SelectSeq(meal_options, keep)
    IN  [i \in DOMAIN picked |-> picked[i][meal_type]]

\* get_swap with DIET_PLANS_DATA.get(diet_name, {}) and no "Invalid diet name" answer
get_swap_default_diet(diet_name, meal_type, current_meal) ==
    IF ~ArgTruthy(diet_name) \/ ~ArgTruthy(meal_type) \/ ~ArgTruthy(current_meal)
    THEN {[status |-> 400, body |-> [success |-> FALSE, message |-> "Missing required parameters."]]}
    ELSE LET diet_data == DictGet(DIET_PLANS_DATA, diet_name, EmptyDict)
             meal_options == DictGet(diet_data, "meal_options", <<>>)
             swaps == possible_swaps(meal_options, meal_type, current_meal)
         IN  IF swaps = <<>>
             THEN {[status |-> 200, body |-> [success |-> TRUE, new_meal |-> current_meal]]}
             ELSE {[status |-> 200, body |-> [success |-> TRUE, new_meal |-> m]] : m \in Elems(swaps)}

\* the (status, JSON body) pairs get_swap may answer with
get_swap(diet_name, meal_type, current_meal) ==
    IF ~ArgTruthy(diet_name) \/ ~ArgTruthy(meal_type) \/ ~ArgTruthy(current_meal)
    THEN {[status |-> 400, body |-> [success |-> FALSE, message |-> "Missing required parameters."]]}
    ELSE IF diet_name \notin DOMAIN DIET_PLANS_DATA
    THEN {[status |-> 404, body |-> [success |-> FALSE, message |-> "Invalid diet name."]]}
    ELSE LET diet_data == DIET_PLANS_DATA[diet_name]
             meal_options == DictGet(diet_data, "meal_options", <<>>)
             swaps == possible_swaps(meal_options, meal_type, current_meal)
         IN  IF swaps = <<>>
             THEN {[status |-> 200, body |-> [success |-> TRUE, new_meal |-> current_meal]]}
             ELSE {[status |-> 200, body |-> [success |-> TRUE, new_meal |-> m]] : m \in Elems(swaps)}

GetSwap(u, diet_name, meal_type, current_meal) ==
    /\ \E r \in get_swap(diet_name, meal_type, current_meal) :
          last' = [op |-> "get_swap", user |-> u, diet_name |-> diet_name,
                   meal_type |-> meal_type, current_meal |-> current_meal,
                   status |-> r.status, body |-> r.body]
    /\ UNCHANGED <<DIET_PLANS_DATA, profiles, saved_plans, saved_workouts, likes, next_oid>>

(***************************************************************************)
(* Python values held in form fields and profile documents: None, a str    *)
(* (a sequence of characters) or a float.  Floats are kept in tenths, so   *)
(* 24.2 is 242 and 175.0 is 1750.                                          *)
(***************************************************************************)
PyNone == [t |-> "None"]
PyStr(chars) == [t |-> "str", v |-> chars]
PyFloat(tenths) == [t |-> "float", v |-> tenths]
PyList(items) == [t |-> "list", v |-> items]
PyDict(d) == [t |-> "dict", v |-> d]

\* bool(x): None, "", 0.0, [] and {} are falsy
Truthy(x) ==
    CASE x.t = "None" -> FALSE
      [] x.t = "str" -> x.v # <<>>
      [] x.t = "float" -> x.v # 0
      [] x.t = "list" -> x.v # <<>>
      [] x.t = "dict" -> DOMAIN x.v # {}

\* x or default
PyOr(x, default) == IF Truthy(x) THEN x ELSE default

Digits == {"0", "1", "2", "3", "4", "5", "6", "7", "8", "9"}

DigitVal(c) ==
    CASE c = "0" -> 0 [] c = "1" -> 1 [] c = "2" -> 2 [] c = "3" -> 3 [] c = "4" -> 4
      [] c = "5" -> 5 [] c = "6" -> 6 [] c = "7" -> 7 [] c = "8" -> 8 [] c = "9" -> 9

RECURSIVE StrToNat(_)
StrToNat(chars) ==
    IF chars = <<>> THEN 0
    ELSE 10 * StrToNat(SubSeq(chars, 1, Len(chars) - 1)) + DigitVal(chars[Len(chars)])

\* float(x) on the inputs of the model (None, strings over digits and
\* letters, floats): the value in tenths, or the exception raised
float(x) ==
    CASE x.t = "None" -> [ok |-> FALSE, exc |-> "TypeError"]
      [] x.t = "float" -> [ok |-> TRUE, v |-> x.v]
      [] x.t = "str" ->
            IF x.v # <<>> /\ \A i \in DOMAIN x.v : x.v[i] \in Digits
            THEN [ok |-> TRUE, v |-> 10 * StrToNat(x.v)]
            ELSE [ok |-> FALSE, exc |-> "ValueError"]

\* num / den rounded to the nearest integer, ties to even (Python round)
RoundDiv(num, den) ==
    LET q == num \div den
        r == num % den
    IN  IF 2 * r > den \/ (2 * r = den /\ q % 2 = 1) THEN q + 1 ELSE q

(***************************************************************************)
(* POST /profile                                                           *)
(***************************************************************************)
RequiredFields == {"age", "gender", "height_cm", "weight_kg"}
OptionalFields == {"chronic_disease", "blood_pressure_systolic", "blood_pressure_diastolic",
                   "cholesterol_level", "blood_sugar_level", "sleep_hours"}
FormFields == RequiredFields \cup OptionalFields

\* request.form.get(field) for every field: None when the field is not sent
BaseForm ==
    [age |-> PyStr(<<"3", "0">>), gender |-> PyStr(<<"1">>),
     height_cm |-> PyStr(<<"1", "7", "5">>), weight_kg |-> PyStr(<<"7", "0">>),
     chronic_disease |-> PyNone, blood_pressure_systolic |-> PyNone,
     blood_pressure_diastolic |-> PyNone, cholesterol_level |-> PyNone,
     blood_sugar_level |-> PyNone, sleep_hours |-> PyNone]

FullForm ==
    [age |-> PyStr(<<"4", "5">>), gender |-> PyStr(<<"0">>),
     height_cm |-> PyStr(<<"1", "6", "0">>), weight_kg |-> PyStr(<<"8", "2">>),
     chronic_disease |-> PyStr(<<"1">>), blood_pressure_systolic |-> PyStr(<<"1", "3", "0">>),
     blood_pressure_diastolic |-> PyStr(<<"8", "5">>), cholesterol_level |-> PyStr(<<"2", "0", "0">>),
     blood_sugar_level |-> PyStr(<<"1", "1", "0">>), sleep_hours |-> PyStr(<<"8">>)]

\* the values a single field is given: not sent, empty, not a number, zero, a number
FieldVals == {PyNone, PyStr(<<>>), PyStr(<<"x">>), PyStr(<<"0">>), PyStr(<<"6", "4">>)}

\* the forms a user submits: the two complete forms and every single-field
\* change of the first
Forms ==
    {BaseForm, FullForm} \cup {[BaseForm EXCEPT ![f] = v] : f \in FormFields, v \in FieldVals}

\* every user but the first submits only a complete form or one without age
FormsOf(u) ==
    IF u = "u1" THEN Forms ELSE {BaseForm, FullForm, [BaseForm EXCEPT !.age = PyNone]}

\* lines 128-135: the derived BMI, None unless both are truthy and parse
\* and the height is not zero
compute_bmi(height_cm, weight_kg) ==
    IF Truthy(height_cm) /\ Truthy(weight_kg)
    THEN LET h == float(height_cm)
             w == float(weight_kg)
         IN  IF ~h.ok \/ ~w.ok THEN PyNone
             ELSE IF h.v = 0 THEN PyNone
             ELSE PyFloat(RoundDiv(w.v * 1000000, h.v * h.v))
    ELSE PyNone

\* profile_data that leaves the bmi key out when no BMI was computed
profile_data_skip_null_bmi(u, form) ==
    LET rest == [user_id |-> u, age |-> form.age, gender |-> form.gender,
                 height_cm |-> form.height_cm, weight_kg |-> form.weight_kg,
                 chronic_disease |-> form.chronic_disease,
                 blood_pressure_systolic |-> form.blood_pressure_systolic,
                 blood_pressure_diastolic |-> form.blood_pressure_diastolic,
                 cholesterol_level |-> form.cholesterol_level,
                 blood_sugar_level |-> form.blood_sugar_level,
                 sleep_hours |-> form.sleep_hours]
        bmi == IF Truthy(form.height_cm) /\ Truthy(form.weight_kg)
                  /\ float(form.height_cm).ok /\ float(form.weight_kg).ok
                  /\ float(form.height_cm).v # 0
               THEN PyFloat(RoundDiv(float(form.weight_kg).v * 1000000,
                                     float(form.height_cm).v * float(form.height_cm).v))
               ELSE PyNone
    IN  IF bmi = PyNone THEN rest ELSE ("bmi" :> bmi) @@ rest

\* lines 136-145: the dict handed to $set
profile_data(u, form) ==
    [user_id |-> u, age |-> form.age, gender |-> form.gender,
     height_cm |-> form.height_cm, weight_kg |-> form.weight_kg,
     bmi |-> compute_bmi(form.height_cm, form.weight_kg),
     chronic_disease |-> form.chronic_disease,
     blood_pressure_systolic |-> form.blood_pressure_systolic,
     blood_pressure_diastolic |-> form.blood_pressure_diastolic,
     cholesterol_level |-> form.cholesterol_level,
     blood_sugar_level |-> form.blood_sugar_level,
     sleep_hours |-> form.sleep_hours]

\* positions of the documents of a collection that match {"user_id": u}
Matching(coll, u) == {i \in DOMAIN coll : coll[i].user_id = u}

Min(S) == CHOOSE x \in S : \A y \in S : x <= y

\* collection.find_one({"user_id": u}) or {}
find_one_or_empty(coll, u) ==
    IF Matching(coll, u) = {} THEN EmptyDict ELSE coll[Min(Matching(coll, u))]

\* {"$set": data} applied to a document: the keys of data are overwritten,
\* every other key of the document is kept
ApplySet(doc, data) ==
    [k \in DOMAIN doc \cup DOMAIN data |-> IF k \in DOMAIN data THEN data[k] ELSE doc[k]]

\* an update_one that inserts whether or not a document matches
update_one_always_insert(coll, u, data, oid) ==
    Append(coll, ApplySet([_id |-> oid, user_id |-> u], data))

\* update_one({"user_id": u}, {"$set": data}, upsert=True): the first
\* matching document is updated; without one a new document is inserted
update_one_upsert(coll, u, data, oid) ==
    IF Matching(coll, u) = {}
    THEN Append(coll, ApplySet([_id |-> oid, user_id |-> u], data))
    ELSE [coll EXCEPT ![Min(Matching(coll, u))] = ApplySet(@, data)]

Profile(u, form) ==
    /\ profiles' = update_one_upsert(profiles, u, profile_data(u, form), next_oid)
    /\ Len(profiles') <= MaxDocs
    /\ next_oid' = IF Len(profiles') > Len(profiles) THEN next_oid + 1 ELSE next_oid
    /\ last' = [op |-> "profile", user |-> u, form |-> form, status |-> 302]
    /\ UNCHANGED <<DIET_PLANS_DATA, saved_plans, saved_workouts, likes>>

(***************************************************************************)
(* GET /get-prediction                                                     *)
(***************************************************************************)
\* the fallback constants of lines 162-165 (the BMI one in tenths: 24.2)
FallbackBmiTenths == 242
FallbackChronicDisease == 0
FallbackSystolic == 120
FallbackDiastolic == 80
FallbackCholesterol == 180
FallbackBloodSugar == 95
FallbackSleepHours == 7

Whole(n) == PyFloat(10 * n)

\* largest index the classifier's argmax gives (one past meal_plan_map)
MaxClassIndex == 5

\* line 173
meal_plan_map ==
    [i \in 0..4 |->
        CASE i = 0 -> "Balanced Diet" [] i = 1 -> "High Protein" [] i = 2 -> "Low Carb"
          [] i = 3 -> "Low Fat" [] i = 4 -> "Mediterranean"]

\* feature_args with the two blood-pressure fallbacks exchanged
feature_args_swapped_fallbacks(profile) ==
    << DictGet(profile, "age", PyNone), DictGet(profile, "gender", PyNone),
       DictGet(profile, "height_cm", PyNone), DictGet(profile, "weight_kg", PyNone),
       PyOr(DictGet(profile, "bmi", PyNone), PyFloat(FallbackBmiTenths)),
       PyOr(DictGet(profile, "chronic_disease", PyNone), Whole(FallbackChronicDisease)),
       PyOr(DictGet(profile, "blood_pressure_systolic", PyNone), Whole(FallbackDiastolic)),
       PyOr(DictGet(profile, "blood_pressure_diastolic", PyNone), Whole(FallbackSystolic)),
       PyOr(DictGet(profile, "cholesterol_level", PyNone), Whole(FallbackCholesterol)),
       PyOr(DictGet(profile, "blood_sugar_level", PyNone), Whole(FallbackBloodSugar)),
       PyOr(DictGet(profile, "sleep_hours", PyNone), Whole(FallbackSleepHours)) >>

\* lines 160-166: the arguments of the eleven float(...) calls, in order
feature_args(profile) ==
    << DictGet(profile, "age", PyNone), DictGet(profile, "gender", PyNone),
       DictGet(profile, "height_cm", PyNone), DictGet(profile, "weight_kg", PyNone),
       PyOr(DictGet(profile, "bmi", PyNone), PyFloat(FallbackBmiTenths)),
       PyOr(DictGet(profile, "chronic_disease", PyNone), Whole(FallbackChronicDisease)),
       PyOr(DictGet(profile, "blood_pressure_systolic", PyNone), Whole(FallbackSystolic)),
       PyOr(DictGet(profile, "blood_pressure_diastolic", PyNone), Whole(FallbackDiastolic)),
       PyOr(DictGet(profile, "cholesterol_level", PyNone), Whole(FallbackCholesterol)),
       PyOr(DictGet(profile, "blood_sugar_level", PyNone), Whole(FallbackBloodSugar)),
       PyOr(DictGet(profile, "sleep_hours", PyNone), Whole(FallbackSleepHours)) >>

\* line 157: the profile lacks a required key or its age is falsy
profile_incomplete(profile) ==
    \/ ~(\A k \in RequiredFields : k \in DOMAIN profile)
    \/ ~Truthy(profile["age"])

\* recommend drawing the option set from any stored category
recommend_any_category(meal_idx) ==
    LET mapped == meal_idx \in DOMAIN meal_plan_map
    IN  IF ~mapped \/ meal_plan_map[meal_idx] \notin DOMAIN DIET_PLANS_DATA
        THEN {[success |-> FALSE, message |-> "Could not find a matching diet plan for the prediction."]}
        ELSE LET meal_plan_name == meal_plan_map[meal_idx]
                 every == UNION {Elems(DictGet(DIET_PLANS_DATA[n], "meal_options", <<>>)) :
                                   n \in DOMAIN DIET_PLANS_DATA}
             IN  IF every = {}
                 THEN {[success |-> TRUE, meal_plan |-> meal_plan_name, recommendation |-> PyNone]}
                 ELSE {[success |-> TRUE, meal_plan |-> meal_plan_name, recommendation |-> r] :
                          r \in every}

\* lines 176-186: the answers for one classifier output
recommend(meal_idx) ==
    LET mapped == meal_idx \in DOMAIN meal_plan_map
    IN  IF ~mapped \/ meal_plan_map[meal_idx] \notin DOMAIN DIET_PLANS_DATA
        THEN {[success |-> FALSE, message |-> "Could not find a matching diet plan for the prediction."]}
        ELSE LET meal_plan_name == meal_plan_map[meal_idx]
                 all_recommendations == DictGet(DIET_PLANS_DATA[meal_plan_name], "meal_options", <<>>)
             IN  IF all_recommendations = <<>>
                 THEN {[success |-> TRUE, meal_plan |-> meal_plan_name, recommendation |-> PyNone]}
                 ELSE {[success |-> TRUE, meal_plan |-> meal_plan_name, recommendation |-> r] :
                          r \in Elems(all_recommendations)}

\* an except clause that names ValueError alone
CaughtValueErrorOnly == {"ValueError"}

\* line 167: the exceptions the try block catches
CaughtExceptions == {"ValueError", "TypeError"}

\* the answers of get_prediction for user u: the status, the JSON body, the
\* feature vector built (empty when none was) and the classifier's output
\* (-1 when it was not invoked)
get_prediction(u) ==
    LET profile == find_one_or_empty(profiles, u)
    IN  IF profile_incomplete(profile)
        THEN {[status |-> 200,
               body |-> [success |-> FALSE,
                         message |-> "Please complete your profile first! Age, gender, height, and weight are required."],
               features |-> <<>>, meal_idx |-> -1]}
        ELSE LET parsed == [i \in 1..11 |-> float(feature_args(profile)[i])]
                 failed == {i \in 1..11 : ~parsed[i].ok}
             IN  IF failed # {}
                 THEN IF parsed[Min(failed)].exc \in CaughtExceptions
                      THEN {[status |-> 200,
                             body |-> [success |-> FALSE,
                                       message |-> "Invalid data in profile. Please check your details."],
                             features |-> <<>>, meal_idx |-> -1]}
                      ELSE {[status |-> 500, body |-> [raised |-> parsed[Min(failed)].exc],
                             features |-> <<>>, meal_idx |-> -1]}
                 ELSE UNION {{[status |-> 200, body |-> b,
                               features |-> [i \in 1..11 |-> parsed[i].v],
                               meal_idx |-> idx] : b \in recommend(idx)} :
                                idx \in 0..MaxClassIndex}

GetPrediction(u) ==
    /\ \E r \in get_prediction(u) :
          last' = [op |-> "get_prediction", user |-> u, status |-> r.status, body |-> r.body,
                   features |-> r.features, meal_idx |-> r.meal_idx]
    /\ UNCHANGED <<DIET_PLANS_DATA, profiles, saved_plans, saved_workouts, likes, next_oid>>

(***************************************************************************)
(* POST /save-workout and POST /save-prediction.  request.json is None     *)
(* (no JSON document, or the document null) or a dict.  The saved_at       *)
(* timestamp of a record is left out: nothing modelled here reads it.      *)
(***************************************************************************)
TitleLegs == PyStr(<<"L", "e", "g", "s">>)
PlanSquats == PyList(<<"Squats">>)
NameBalanced == PyStr(<<"B", "D">>)
MealsOats == PyDict(OptOats)

WorkoutBodies ==
    { PyNone, PyDict(EmptyDict),
      PyDict([title |-> TitleLegs]),
      PyDict([plan |-> PlanSquats]),
      PyDict([title |-> TitleLegs, plan |-> PlanSquats]),
      PyDict([title |-> PyNone, plan |-> PyNone, description |-> PyStr(<<"d">>)]) }

PredictionBodies ==
    { PyNone, PyDict(EmptyDict),
      PyDict([meal_plan_name |-> NameBalanced]),
      PyDict([meals |-> MealsOats]),
      PyDict([meal_plan_name |-> PyStr(<<>>), meals |-> MealsOats]),
      PyDict([meal_plan_name |-> NameBalanced, meals |-> PyDict(EmptyDict)]),
      PyDict([meal_plan_name |-> NameBalanced, meals |-> MealsOats]) }

\* lines 238-247: the status, the JSON body and the collection afterwards
save_workout(u, data, oid) ==
    IF ~Truthy(data) \/ "title" \notin DOMAIN data.v \/ "plan" \notin DOMAIN data.v
    THEN [status |-> 400, body |-> [success |-> FALSE, message |-> "Invalid data."],
          docs |-> saved_workouts]
    ELSE [status |-> 200, body |-> [success |-> TRUE, message |-> "Workout saved successfully!"],
          docs |-> Append(saved_workouts,
                          [_id |-> oid, user_id |-> u,
                           title |-> DictGet(data.v, "title", PyNone),
                           description |-> DictGet(data.v, "description", PyNone),
                           plan |-> DictGet(data.v, "plan", PyNone)])]

\* lines 253-263: data.get on None raises AttributeError
save_prediction(u, data, oid) ==
    IF data.t # "dict"
    THEN [status |-> 500, body |-> [raised |-> "AttributeError"], docs |-> saved_plans]
    ELSE LET meal_plan_name == DictGet(data.v, "meal_plan_name", PyNone)
             meals == DictGet(data.v, "meals", PyNone)
         IN  IF ~Truthy(meal_plan_name) \/ ~Truthy(meals)
             THEN [status |-> 400, body |-> [success |-> FALSE, message |-> "Missing data."],
                   docs |-> saved_plans]
             ELSE [status |-> 200, body |-> [success |-> TRUE, message |-> "Plan saved successfully!"],
                   docs |-> Append(saved_plans,
                                   [_id |-> oid, user_id |-> u,
                                    meal_plan_name |-> meal_plan_name, meals |-> meals])]

SaveWorkout(u, data) ==
    LET r == save_workout(u, data, next_oid)
        inserted == Len(r.docs) > Len(saved_workouts)
    IN  /\ inserted => next_oid <= MaxOid
        /\ saved_workouts' = r.docs
        /\ next_oid' = IF inserted THEN next_oid + 1 ELSE next_oid
        /\ last' = [op |-> "save_workout", user |-> u, data |-> data,
                    status |-> r.status, body |-> r.body]
        /\ UNCHANGED <<DIET_PLANS_DATA, profiles, saved_plans, likes>>

SavePrediction(u, data) ==
    LET r == save_prediction(u, data, next_oid)
        inserted == Len(r.docs) > Len(saved_plans)
    IN  /\ inserted => next_oid <= MaxOid
        /\ saved_plans' = r.docs
        /\ next_oid' = IF inserted THEN next_oid + 1 ELSE next_oid
        /\ last' = [op |-> "save_prediction", user |-> u, data |-> data,
                    status |-> r.status, body |-> r.body]
        /\ UNCHANGED <<DIET_PLANS_DATA, profiles, saved_workouts, likes>>

(***************************************************************************)
(* DELETE /delete-plan/<plan_id> and DELETE /delete-workout/<workout_id>.  *)
(* The id in the path is a string; ObjectId(...) accepts 24 hexadecimal    *)
(* characters and raises InvalidId on anything else.                       *)
(***************************************************************************)
OidLen == 24

HexDigits == Digits \cup {"a", "b", "c", "d", "e", "f"}

HexVal(c) ==
    CASE c \in Digits -> DigitVal(c)
      [] c = "a" -> 10 [] c = "b" -> 11 [] c = "c" -> 12
      [] c = "d" -> 13 [] c = "e" -> 14 [] c = "f" -> 15

RECURSIVE HexToNat(_)
HexToNat(chars) ==
    IF chars = <<>> THEN 0
    ELSE 16 * HexToNat(SubSeq(chars, 1, Len(chars) - 1)) + HexVal(chars[Len(chars)])

\* ObjectId(id_string): the id, or the exception raised
ObjectId(id_string) ==
    IF Len(id_string) = OidLen /\ \A i \in DOMAIN id_string : id_string[i] \in HexDigits
    THEN [ok |-> TRUE, v |-> HexToNat(id_string)]
    ELSE [ok |-> FALSE, exc |-> "InvalidId"]

HexChar(n) ==
    CASE n < 10 -> CHOOSE c \in Digits : DigitVal(c) = n
      [] n >= 10 -> CHOOSE c \in HexDigits \ Digits : HexVal(c) = n

\* str(oid): the 24-character form of an id below 256
OidStr(n) ==
    [i \in 1..OidLen |->
        IF i = OidLen THEN HexChar(n % 16)
        ELSE IF i = OidLen - 1 THEN HexChar((n \div 16) % 16)
        ELSE "0"]

\* the ids a request names: those of records that exist or may exist, and
\* strings that are no ObjectId
PathIds ==
    {OidStr(n) : n \in 1..(MaxOid + 1)}
      \cup { <<"a", "b", "c">>, [i \in 1..OidLen |-> "z"], [i \in 1..(OidLen + 1) |-> "0"] }

\* delete_one({"_id": oid, "user_id": u}): the collection without the first
\* matching document
delete_one(coll, oid, u) ==
    LET hits == {i \in DOMAIN coll : coll[i]._id = oid /\ coll[i].user_id = u}
    IN  IF hits = {} THEN coll
        ELSE LET k == Min(hits)
             IN  [i \in 1..(Len(coll) - 1) |-> IF i < k THEN coll[i] ELSE coll[i + 1]]

\* lines 277-281 and 287-291, for the collection coll and the noun of its messages
delete_record(coll, noun, id_string, u) ==
    LET oid == ObjectId(id_string)
    IN  IF ~oid.ok
        THEN [status |-> 500, body |-> [raised |-> oid.exc], docs |-> coll]
        ELSE LET docs == delete_one(coll, oid.v, u)
                 deleted_count == Len(coll) - Len(docs)
             IN  IF deleted_count = 1
                 THEN [status |-> 200, body |-> [success |-> TRUE, message |-> noun \o " deleted successfully."],
                       docs |-> docs]
                 ELSE [status |-> 404, body |-> [success |-> FALSE, message |-> noun \o " not found or permission denied."],
                       docs |-> docs]

DeletePlan(u, plan_id) ==
    LET r == delete_record(saved_plans, "Plan", plan_id, u)
    IN  /\ saved_plans' = r.docs
        /\ last' = [op |-> "delete_plan", user |-> u, id |-> plan_id,
                    status |-> r.status, body |-> r.body]
        /\ UNCHANGED <<DIET_PLANS_DATA, profiles, saved_workouts, likes, next_oid>>

DeleteWorkout(u, workout_id) ==
    LET r == delete_record(saved_workouts, "Workout", workout_id, u)
    IN  /\ saved_workouts' = r.docs
        /\ last' = [op |-> "delete_workout", user |-> u, id |-> workout_id,
                    status |-> r.status, body |-> r.body]
        /\ UNCHANGED <<DIET_PLANS_DATA, profiles, saved_plans, likes, next_oid>>

(***************************************************************************)
(* GET /like/<diet_name>/<plan_index>: the existence check and conditional *)
(* insert of the engagement store, and its counting.                       *)
(***************************************************************************)
LikedDiets == {"Balanced Diet", "Keto"}
PlanIndexes == {0, 1}

LikesOf(coll, u, diet_name, plan_index) ==
    {i \in DOMAIN coll : /\ coll[i].user_id = u
                         /\ coll[i].diet_name = diet_name
                         /\ coll[i].plan_index = plan_index}

\* a like that inserts without the existence check
like_always_insert(coll, u, diet_name, plan_index) ==
    Append(coll, [user_id |-> u, diet_name |-> diet_name, plan_index |-> plan_index])

\* the like collection after like(user, diet_name, plan_index)
like(coll, u, diet_name, plan_index) ==
    IF LikesOf(coll, u, diet_name, plan_index) # {}
    THEN coll
    ELSE Append(coll, [user_id |-> u, diet_name |-> diet_name, plan_index |-> plan_index])

\* count_likes(diet_name, plan_index)
count_likes(coll, diet_name, plan_index) ==
    Cardinality({i \in DOMAIN coll : coll[i].diet_name = diet_name /\ coll[i].plan_index = plan_index})

Like(u, diet_name, plan_index) ==
    /\ likes' = like(likes, u, diet_name, plan_index)
    /\ Len(likes') <= MaxLikes
    /\ last' = [op |-> "like", user |-> u, diet_name |-> diet_name, plan_index |-> plan_index,
                repeated |-> LikesOf(likes, u, diet_name, plan_index) # {}, status |-> 302]
    /\ UNCHANGED <<DIET_PLANS_DATA, profiles, saved_plans, saved_workouts, next_oid>>

(***************************************************************************)
(* Initial state: the content store is loaded, every collection is empty.  *)
(***************************************************************************)
Init ==
    /\ DIET_PLANS_DATA \in {load_diet_plans(f) : f \in DietFiles}
    /\ profiles = <<>>
    /\ saved_plans = <<>>
    /\ saved_workouts = <<>>
    /\ likes = <<>>
    /\ next_oid = 1
    /\ last = [op |-> "start"]

\* the handlers of the saved records and of the likes never read the content
\* store: their specifications start from the first content file alone
InitMain ==
    /\ Init
    /\ DIET_PLANS_DATA = load_diet_plans(<<DietBalanced, DietHighProtein, DietLowCarb, DietLowFat>>)

NextSwap ==
    \E u \in Users, d \in DietNames, t \in MealTypes, m \in Meals : GetSwap(u, d, t, m)

SpecSwap == Init /\ [][NextSwap]_vars

NextProfile ==
    \/ \E u \in Users : \E form \in FormsOf(u) : Profile(u, form)
    \/ \E u \in Users : GetPrediction(u)

SpecProfile == Init /\ [][NextProfile]_vars

NextSaved ==
    \/ \E u \in Users, data \in WorkoutBodies : SaveWorkout(u, data)
    \/ \E u \in Users, data \in PredictionBodies : SavePrediction(u, data)
    \/ \E u \in Users, id \in PathIds : DeletePlan(u, id)
    \/ \E u \in Users, id \in PathIds : DeleteWorkout(u, id)

SpecSaved == InitMain /\ [][NextSaved]_vars

NextLike ==
    \E u \in Users, d \in LikedDiets, i \in PlanIndexes : Like(u, d, i)

SpecLike == InitMain /\ [][NextLike]_vars

Next ==
    \/ NextSwap
    \/ NextProfile
    \/ NextSaved
    \/ NextLike

Spec == Init /\ [][Next]_vars

(***************************************************************************)
(* Properties of get-swap.                                                 *)
(***************************************************************************)
\* the values the option sets of a stored category hold for a meal slot
SlotValues(diet_name, meal_type) ==
    LET options == Elems(DictGet(DIET_PLANS_DATA[diet_name], "meal_options", <<>>))
    IN  {o[meal_type] : o \in {x \in options : meal_type \in DOMAIN x}}

SwapAsked ==
    /\ last.op = "get_swap"
    /\ ArgTruthy(last.diet_name) /\ ArgTruthy(last.meal_type) /\ ArgTruthy(last.current_meal)

\* C1: for a category of the content store, a meal slot and a current value,
\* get-swap answers with a new_meal that is one of the category's values for
\* the slot other than the current value whenever there is one, and with the
\* current value only when there is none.
C1_SwapPicksOtherValue ==
    (SwapAsked /\ last.diet_name \in DOMAIN DIET_PLANS_DATA) =>
        LET others == SlotValues(last.diet_name, last.meal_type) \ {last.current_meal}
        IN  /\ last.status = 200
            /\ last.body.success
            /\ IF others # {} THEN last.body.new_meal \in others
                              ELSE last.body.new_meal = last.current_meal

\* the example of the spec: the other breakfast of the Balanced Diet is returned
C1_Witness ==
    /\ SwapAsked
    /\ last.diet_name = "Balanced Diet"
    /\ last.meal_type = "Breakfast"
    /\ last.current_meal = "Oats with nuts and banana"
    /\ "Balanced Diet" \in DOMAIN DIET_PLANS_DATA
    /\ SlotValues("Balanced Diet", "Breakfast") = {"Oats with nuts and banana", "Greek yogurt parfait"}
    /\ last.body.new_meal = "Greek yogurt parfait"

\* the lookup of a swap request fails: the category is not stored, or no
\* option set of it has the slot
SwapCategoryMissing == SwapAsked /\ last.diet_name \notin DOMAIN DIET_PLANS_DATA
SwapSlotMissing ==
    /\ SwapAsked
    /\ last.diet_name \in DOMAIN DIET_PLANS_DATA
    /\ SlotValues(last.diet_name, last.meal_type) = {}

\* C8 as claimed: a failed category or slot lookup of get-swap is answered
\* with a success:false "not found" result.
C8_FailedLookupIsNotFound ==
    (SwapCategoryMissing \/ SwapSlotMissing) => (last.status # 500 /\ ~last.body.success)

\* C8 as amended: get-swap never raises; a category that is not stored is
\* answered 404 success:false "Invalid diet name.", and a slot no option set
\* of the category has is answered success:true with the current value.
C8_FailedLookupAnswers ==
    /\ last.op = "get_swap" => last.status \in {200, 400, 404}
    /\ SwapCategoryMissing =>
          /\ last.status = 404
          /\ last.body = [success |-> FALSE, message |-> "Invalid diet name."]
    /\ SwapSlotMissing =>
          /\ last.status = 200
          /\ last.body = [success |-> TRUE, new_meal |-> last.current_meal]

\* both failed lookups happen: this one is the missing slot
C8_Witness ==
    /\ SwapSlotMissing
    /\ last.diet_name = "Balanced Diet"
    /\ last.meal_type = "Snack"
    /\ last.body.new_meal = last.current_meal

(***************************************************************************)
(* Properties of the profile and of get-prediction.                        *)
(***************************************************************************)
\* the profile document get_prediction reads for a user
UserProfile(u) == find_one_or_empty(profiles, u)

\* a stored field that is a string of digits
IsNumeric(x) == x.t = "str" /\ x.v # <<>> /\ \A i \in DOMAIN x.v : x.v[i] \in Digits

\* a field that is missing, null, empty or not a number
FieldBad(p, k) == k \notin DOMAIN p \/ ~IsNumeric(p[k])

RequiredBad(p) == \E k \in RequiredFields : FieldBad(p, k)

Predicted == last.op = "get_prediction"

PredictionSucceeded ==
    Predicted /\ last.status = 200 /\ "success" \in DOMAIN last.body /\ last.body.success

\* the options the content store defines for a stored category
OptionsOf(name) == DictGet(DIET_PLANS_DATA[name], "meal_options", <<>>)

\* C4 as claimed: a success:true answer of get-prediction names a category of
\* the content store and carries one of that category's meal-option sets.
C4_RecommendationIsDefinedOption ==
    PredictionSucceeded =>
        /\ last.body.meal_plan \in DOMAIN DIET_PLANS_DATA
        /\ last.body.recommendation \in Elems(OptionsOf(last.body.meal_plan))

\* C4 as amended: a success:true answer names the stored category the
\* classifier's index maps to, and carries one of that category's option
\* sets, or null when the category has none.
C4_RecommendationIsOptionOrNull ==
    PredictionSucceeded =>
        /\ last.meal_idx \in 0..4
        /\ last.body.meal_plan \in DOMAIN DIET_PLANS_DATA
        /\ IF OptionsOf(last.body.meal_plan) = <<>>
           THEN last.body.recommendation = PyNone
           ELSE last.body.recommendation \in Elems(OptionsOf(last.body.meal_plan))

C4_Witness ==
    /\ PredictionSucceeded
    /\ last.meal_idx = 3
    /\ last.body.meal_plan = "Low Fat"
    /\ last.body.recommendation = OptEgg

\* C5: when the caller has no profile, or a required field of it is missing,
\* empty or not a number, get-prediction answers success:false with a
\* message, raises nothing, invokes no classifier and changes no stored state.
C5_BadProfileIsRefused ==
    [][ (last'.op = "get_prediction" /\ RequiredBad(UserProfile(last'.user))) =>
            /\ UNCHANGED <<DIET_PLANS_DATA, profiles, saved_plans, saved_workouts, likes, next_oid>>
            /\ last'.status = 200
            /\ DOMAIN last'.body = {"success", "message"}
            /\ ~last'.body.success
            /\ last'.meal_idx = -1
            /\ last'.features = <<>> ]_vars

\* a stored profile whose gender was not sent is refused
C5_Witness ==
    /\ Predicted
    /\ UserProfile(last.user) # EmptyDict
    /\ UserProfile(last.user).gender = PyNone
    /\ IsNumeric(UserProfile(last.user).age)
    /\ ~last.body.success

\* C6: the profile store holds at most one record per user: the first
\* submission creates it, a later one updates that record.
C6_OneProfilePerUser ==
    /\ [](\A u \in Users : Cardinality(Matching(profiles, u)) <= 1)
    /\ [](last.op = "profile" => Cardinality(Matching(profiles, last.user)) = 1)
    /\ [][ /\ \A i \in DOMAIN profiles :
                /\ i \in DOMAIN profiles'
                /\ profiles'[i]._id = profiles[i]._id
                /\ profiles'[i].user_id = profiles[i].user_id
           /\ last'.op = "profile" =>
                Len(profiles') = IF Matching(profiles, last'.user) = {}
                                 THEN Len(profiles) + 1 ELSE Len(profiles) ]_vars

\* the first user's record, created first, was updated after the second
\* user's record was created
C6_Witness ==
    /\ last.op = "profile"
    /\ last.user = "u1"
    /\ Len(profiles) = 2
    /\ profiles[1].user_id = "u1"
    /\ profiles[2].user_id = "u2"
    /\ profiles[1].age = PyStr(<<"6", "4">>)

\* the position of each optional field in the feature vector and the
\* fallback the claim gives it, in tenths
OptionalIndex(k) ==
    CASE k = "chronic_disease" -> 6 [] k = "blood_pressure_systolic" -> 7
      [] k = "blood_pressure_diastolic" -> 8 [] k = "cholesterol_level" -> 9
      [] k = "blood_sugar_level" -> 10 [] k = "sleep_hours" -> 11

ClaimedFallback(k) ==
    CASE k = "chronic_disease" -> 0 [] k = "blood_pressure_systolic" -> 1200
      [] k = "blood_pressure_diastolic" -> 800 [] k = "cholesterol_level" -> 1800
      [] k = "blood_sugar_level" -> 950 [] k = "sleep_hours" -> 70

RequiredValid(p) == p # EmptyDict /\ ~RequiredBad(p)

\* an optional field holding a non-empty string that is not a number
OptionalGarbled(p, k) == p[k].t = "str" /\ p[k].v # <<>> /\ ~IsNumeric(p[k])

\* C7 as claimed: with valid required fields the prediction proceeds, every
\* optional field that is absent or not a number is replaced by its fallback
\* and every numeric one is passed through.  (Stated for the profiles whose
\* stored BMI is not 0.0; the amended statement covers those too.)
C7_FallbackOrPassThrough ==
    (/\ Predicted
     /\ RequiredValid(UserProfile(last.user))
     /\ UserProfile(last.user).bmi # PyFloat(0)) =>
        LET p == UserProfile(last.user)
        IN  /\ last.meal_idx >= 0
            /\ \A k \in OptionalFields :
                  last.features[OptionalIndex(k)] =
                      IF IsNumeric(p[k]) THEN 10 * StrToNat(p[k].v) ELSE ClaimedFallback(k)
            /\ last.features[5] = IF p.bmi = PyNone THEN 242 ELSE p.bmi.v

\* C7 as amended: with valid required fields, a non-empty optional field
\* that is not a number makes get-prediction answer success:false without
\* invoking the classifier; otherwise the prediction proceeds, every optional
\* field that is absent or empty (the BMI: null or 0.0) is replaced by its
\* fallback and every numeric one is passed through.
C7_FallbackUnlessGarbled ==
    (Predicted /\ RequiredValid(UserProfile(last.user))) =>
        LET p == UserProfile(last.user)
        IN  IF \E k \in OptionalFields : OptionalGarbled(p, k)
            THEN /\ last.status = 200
                 /\ ~last.body.success
                 /\ last.meal_idx = -1
            ELSE /\ last.meal_idx >= 0
                 /\ \A k \in OptionalFields :
                       last.features[OptionalIndex(k)] =
                           IF IsNumeric(p[k]) THEN 10 * StrToNat(p[k].v) ELSE ClaimedFallback(k)
                 /\ last.features[5] = IF p.bmi = PyNone \/ p.bmi.v = 0 THEN 242 ELSE p.bmi.v

\* sleep hours 64 are passed through, every other optional field falls back
C7_Witness ==
    /\ Predicted
    /\ UserProfile(last.user) # EmptyDict
    /\ UserProfile(last.user).sleep_hours = PyStr(<<"6", "4">>)
    /\ last.features = <<300, 10, 1750, 700, 229, 0, 1200, 800, 1800, 950, 640>>

\* C10: after a profile submission every stored field of the user's profile
\* is the submitted one, and the stored BMI is the one computed from the
\* submitted height and weight when both are numbers and the height is not
\* zero, and null otherwise.
C10_ProfileReplacedWholesale ==
    last.op = "profile" =>
        LET p == UserProfile(last.user)
            f == last.form
        IN  /\ DOMAIN p = {"_id", "user_id", "bmi"} \cup FormFields
            /\ p.user_id = last.user
            /\ \A k \in FormFields : p[k] = f[k]
            /\ IF IsNumeric(f.height_cm) /\ IsNumeric(f.weight_kg) /\ StrToNat(f.height_cm.v) # 0
               THEN LET h == StrToNat(f.height_cm.v)
                        w == StrToNat(f.weight_kg.v)
                        d == p.bmi.v * h * h - w * 100000
                    IN  /\ p.bmi.t = "float"
                        /\ 2 * d <= h * h
                        /\ -2 * d <= h * h
               ELSE p.bmi = PyNone

\* a submission with height zero leaves a null BMI
C10_Witness ==
    /\ last.op = "profile"
    /\ last.form.height_cm = PyStr(<<"0">>)
    /\ IsNumeric(last.form.weight_kg)
    /\ UserProfile(last.user).bmi = PyNone

(***************************************************************************)
(* Properties of the saved records and of the likes.                       *)
(***************************************************************************)
\* the positions of the records of a collection that a user owns under the
\* id a request names
OwnedUnder(coll, id_string, u) ==
    {i \in DOMAIN coll : OidStr(coll[i]._id) = id_string /\ coll[i].user_id = u}

\* a collection without the record at position k
Without(coll, k) == [i \in 1..(Len(coll) - 1) |-> IF i < k THEN coll[i] ELSE coll[i + 1]]

\* one delete request on collection coll (coll_after afterwards): it removes
\* the named record when the requesting user owns it, and otherwise changes
\* nothing and is answered with the 404 denial
DeleteAsClaimed(coll, coll_after) ==
    LET owned == OwnedUnder(coll, last'.id, last'.user)
    IN  IF owned # {}
        THEN \E k \in owned : coll_after = Without(coll, k)
        ELSE /\ coll_after = coll
             /\ last'.status = 404
             /\ last'.body.success = FALSE

\* C2: a delete-plan or delete-workout request removes a record only if it
\* exists and belongs to the requesting user; when the id does not exist or
\* belongs to another user every stored record is left unchanged and the
\* answer is the 404 success:false denial.
C2_DeleteOnlyOwnRecord ==
    [][ /\ last'.op = "delete_plan" =>
              /\ DeleteAsClaimed(saved_plans, saved_plans')
              /\ UNCHANGED <<saved_workouts, profiles, likes>>
        /\ last'.op = "delete_workout" =>
              /\ DeleteAsClaimed(saved_workouts, saved_workouts')
              /\ UNCHANGED <<saved_plans, profiles, likes>> ]_vars

\* the JSON bodies that carry the required fields of each save request
WorkoutBodyComplete(data) ==
    data.t = "dict" /\ "title" \in DOMAIN data.v /\ "plan" \in DOMAIN data.v
PredictionBodyComplete(data) ==
    /\ data.t = "dict"
    /\ "meal_plan_name" \in DOMAIN data.v /\ Truthy(data.v.meal_plan_name)
    /\ "meals" \in DOMAIN data.v /\ Truthy(data.v.meals)

\* one save request on collection coll: a complete body appends one record
\* of the requesting user, any other body is answered 400 success:false and
\* adds nothing
SaveAsClaimed(coll, coll_after, complete) ==
    IF complete
    THEN /\ Len(coll_after) = Len(coll) + 1
         /\ SubSeq(coll_after, 1, Len(coll)) = coll
         /\ coll_after[Len(coll_after)].user_id = last'.user
         /\ last'.status = 200
         /\ last'.body.success
    ELSE /\ coll_after = coll
         /\ last'.status = 400
         /\ last'.body.success = FALSE

\* C9: a successful save-prediction or save-workout request adds exactly one
\* record of the requesting user and leaves every stored record unchanged; a
\* request whose JSON body is missing or lacks the required fields is
\* answered 400 success:false and adds no record.
C9_SaveAppendsOrRejects ==
    [][ /\ last'.op = "save_workout" =>
              /\ SaveAsClaimed(saved_workouts, saved_workouts', WorkoutBodyComplete(last'.data))
              /\ UNCHANGED <<saved_plans, profiles, likes>>
        /\ last'.op = "save_prediction" =>
              /\ SaveAsClaimed(saved_plans, saved_plans', PredictionBodyComplete(last'.data))
              /\ UNCHANGED <<saved_workouts, profiles, likes>> ]_vars

====
